---- MODULE Spec2Model ----
(***************************************************************************)
(* District TB transmission model and beta calibration                     *)
(* (Desktop/microplastics_tools_package/app.py: run_expanded_tb and        *)
(* calibrate_beta_to_cases), as a state machine.                           *)
(*                                                                         *)
(* Arithmetic.  The program computes in floating point.  Here every real   *)
(* quantity is a fixed-point integer, rounded down after each product:     *)
(*   - people: units of 1/PS person (PS units = one person);               *)
(*   - annual and monthly rates, fractions, multipliers, durations:        *)
(*     millionths (D = one);                                               *)
(*   - beta: hundredths, held as a pair <<h, l>> = h * BetaBase + l        *)
(*     because 200 * 500 * 1000 hundredths exceeds the integer range.      *)
(* A compartment never holds more than Cap units: larger values saturate.  *)
(***************************************************************************)
EXTENDS Integers, Sequences, FiniteSets, TLC

\* ---------------------------------------------------------------- scales
PS == 10 * 10
D == 1000 * 1000
K3 == 10 * 100
BetaBase == 1200 * 1000
\* Largest value a compartment (or a flow) can take in the model, in units.
Cap == 100000000

Min(a, b) == IF a < b THEN a ELSE b
Max(a, b) == IF a > b THEN a ELSE b
Abs(a) == IF a < 0 THEN 0 - a ELSE a
Sat(x) == Min(x, Cap)

\* x * r / D rounded down, for a value x and a rate or factor r in millionths.
MulFrac(x, r) ==
  LET xh == x \div K3
      xl == x % K3
      rh == r \div K3
      rl == r % K3
  IN xh * rh + ((xh * rl + xl * rh + ((xl * rl) \div K3)) \div K3)

\* a * b / d rounded down and saturated at Cap (0 <= a, 0 <= b, 0 < d):
\* double-and-add over the bits of b, carrying quotient and remainder.
RECURSIVE MulDivRec(_, _, _, _)
MulDivRec(b, qa, ra, d) ==
  IF b = 0 THEN <<0, 0>>
  ELSE LET qr == MulDivRec(b \div 2, qa, ra, d)
           t1 == 2 * qr[2]
           c1 == IF t1 >= d THEN 1 ELSE 0
           t2 == (t1 - c1 * d) + (b % 2) * ra
           c2 == IF t2 >= d THEN 1 ELSE 0
           q  == 2 * qr[1] + c1 + c2 + (b % 2) * qa
       IN <<Sat(q), t2 - c2 * d>>

MulDiv(a, b, d) ==
  IF a < b THEN MulDivRec(a, Sat(b \div d), b % d, d)[1]
  ELSE MulDivRec(b, Sat(a \div d), a % d, d)[1]

\* ------------------------------------------------------------------ beta
BetaOf(c) == <<c \div BetaBase, c % BetaBase>>
BetaLess(a, b) == a[1] < b[1] \/ (a[1] = b[1] /\ a[2] < b[2])
BetaLeq(a, b) == a = b \/ BetaLess(a, b)
\* beta * factor (factor <= 1000)
BetaTimes(b, factor) ==
  LET t == b[2] * factor
  IN <<b[1] * factor + (t \div BetaBase), t % BetaBase>>
\* the lower end in place of the midpoint
BetaMidLow(a, b) == a

\* 0.5 * (a + b)
BetaMid(a, b) ==
  LET h == a[1] + b[1]
      l == ((h % 2) * BetaBase + a[2] + b[2]) \div 2
  IN <<(h \div 2) + (l \div BetaBase), l % BetaBase>>

\* ------------------------------------------------------------ parameters
\* The default table of run_expanded_tb (fractions in millionths).
default(pop, beta) ==
  [N |-> pop,
   beta |-> beta,
   prop_resistant |-> 25000,
   sigma |-> 100000,
   hiv_prevalence |-> 20000,
   hiv_progression_multiplier |-> 5000000,
   detection_rate |-> 700000,
   diagnostic_delay_months |-> 2000000,
   private_sector_fraction |-> 400000,
   private_notify_frac |-> 500000,
   treatment_initiation_rate |-> 950000,
   treatment_success_s |-> 890000,
   treatment_success_r |-> 870000,
   treatment_duration_months_s |-> 6000000,
   treatment_duration_months_r |-> 9000000,
   relapse_rate |-> 20000,
   natural_death_rate |-> 7000,
   tb_death_rate_s |-> 50000,
   tb_death_rate_r |-> 120000,
   tpt_coverage |-> 50000,
   tpt_efficacy |-> 650000,
   contact_rate_multiplier |-> 1000000,
   vaccine_coverage |-> 0,
   vaccine_efficacy |-> 0,
   malnut_fraction |-> 200000,
   malnut_multiplier |-> 1500000,
   ltfu_rate |-> 50000,
   stockout_frac |-> 0]

Keys == DOMAIN default(0, <<0, 0>>)

\* A caller's params argument: None, or a mapping object (keys -> values).
NoneParams == [none |-> TRUE, d |-> <<>>]
Mapping(f) == [none |-> FALSE, d |-> f]

\* a merge in which the defaults replace the supplied values
setdefaultReplace(d, dflt) ==
  [k \in (DOMAIN d) \cup (DOMAIN dflt) |-> IF k \in DOMAIN dflt THEN dflt[k] ELSE d[k]]

\* for k, v in default.items(): params.setdefault(k, v)
setdefault(d, dflt) ==
  [k \in (DOMAIN d) \cup (DOMAIN dflt) |-> IF k \in DOMAIN d THEN d[k] ELSE dflt[k]]

\* a merge that stores the monthly latency rate back into the caller's mapping
MergedObjectStoresRate(params, pop, beta) ==
  IF params.none THEN params
  ELSE Mapping([setdefault(params.d, default(pop, beta)) EXCEPT !["sigma"] = @ \div 12])

\* The params object as run_expanded_tb leaves it: None stays the caller's
\* None (the defaults are copied into a local), a mapping is filled in place.
MergedObject(params, pop, beta) ==
  IF params.none THEN params
  ELSE Mapping(setdefault(params.d, default(pop, beta)))

\* a copy that keeps the mapping's own "beta"
EffectiveParamsOfMapping(params, pop, beta) ==
  IF params.none THEN default(pop, beta)
  ELSE setdefault(params.d, default(pop, beta))

\* a copy whose "N" is set from the argument, as "beta" is
EffectiveParamsSetsN(params, pop, beta) ==
  LET filled == IF params.none THEN default(pop, beta)
                ELSE setdefault(params.d, default(pop, beta))
  IN [filled EXCEPT !["beta"] = beta, !["N"] = pop]

\* p = params.copy(); p["beta"] = beta
EffectiveParams(params, pop, beta) ==
  LET filled == IF params.none THEN default(pop, beta)
                ELSE setdefault(params.d, default(pop, beta))
  IN [filled EXCEPT !["beta"] = beta]

\* ----------------------------------------------------------------- rates
Pow12(x) ==
  LET x2 == MulFrac(x, x)
      x4 == MulFrac(x2, x2)
      x8 == MulFrac(x4, x4)
  IN MulFrac(x8, x4)

\* least x in lo+1 .. hi with Pow12(x) >= y, given Pow12(hi) >= y
RECURSIVE RootSearch(_, _, _)
RootSearch(lo, hi, y) ==
  IF hi - lo <= 1 THEN hi
  ELSE LET mid == (lo + hi) \div 2
       IN IF Pow12(mid) >= y THEN RootSearch(lo, mid, y)
          ELSE RootSearch(mid, hi, y)

\* 1 - (1 - a) ** (1 / 12), for an annual rate 0 <= a <= 1
MonthlyHazard(a) == D - RootSearch(0 - 1, D, D - a)

\* rates in which preventive therapy slows the progression from latency
RatesWithTPT(p) ==
  [sigma_m |->
     MulFrac(p["sigma"] \div 12,
             D - MulFrac(p["tpt_coverage"], p["tpt_efficacy"])),
   detection_month |->
     MulDiv(MonthlyHazard(p["detection_rate"]), D,
            Max(D, p["diagnostic_delay_months"])),
   tinit_m |-> MonthlyHazard(p["treatment_initiation_rate"]),
   relapse_m |-> MonthlyHazard(p["relapse_rate"]),
   natdeath_m |-> MonthlyHazard(p["natural_death_rate"]),
   tbdeath_s_m |-> MonthlyHazard(p["tb_death_rate_s"]),
   tbdeath_r_m |-> MonthlyHazard(p["tb_death_rate_r"])]

Rates(p) ==
  [sigma_m |-> p["sigma"] \div 12,
   detection_month |->
     MulDiv(MonthlyHazard(p["detection_rate"]), D,
            Max(D, p["diagnostic_delay_months"])),
   tinit_m |-> MonthlyHazard(p["treatment_initiation_rate"]),
   relapse_m |-> MonthlyHazard(p["relapse_rate"]),
   natdeath_m |-> MonthlyHazard(p["natural_death_rate"]),
   tbdeath_s_m |-> MonthlyHazard(p["tb_death_rate_s"]),
   tbdeath_r_m |-> MonthlyHazard(p["tb_death_rate_r"])]

\* half of the failed completions acquire resistance
fail_to_resistant_half == D \div 2
fail_to_resistant == D \div 10
incidence_rate_per_year == (195 * D) \div 100000

\* ---------------------------------------------------------- initial state
Total(s) ==
  s.S + s.V + s.L + s.Iu_s + s.Id_s + s.Ts + s.Iu_r + s.Id_r + s.Tr + s.R

\* an initial state whose fallback branch keeps the heuristic latent pool
InitialStateKeepsL0(p) ==
  LET N == p["N"] * PS
      annual_incidence == MulFrac(N, incidence_rate_per_year)
      L0a == IF p["sigma"] = 0
             THEN (IF annual_incidence = 0 THEN 0 ELSE Cap)
             ELSE MulDiv(annual_incidence, D, p["sigma"])
      Iu_s0 == Max(10 * PS, annual_incidence \div 5)
      Iu_r0 == Max(1 * PS,
                   MulDiv(Iu_s0, p["prop_resistant"], D - p["prop_resistant"]))
      Id_s0 == MulFrac(Iu_s0, 200000)
      Id_r0 == MulFrac(Iu_r0, 200000)
      Ts0 == MulFrac(Id_s0, 500000)
      Tr0 == MulFrac(Id_r0, 500000)
      V0 == MulFrac(N, p["vaccine_coverage"])
      rest == Iu_s0 + Iu_r0 + Id_s0 + Id_r0 + Ts0 + Tr0 + V0
      S0a == N - (L0a + rest)
      S0 == IF S0a < 0 THEN Max(0, N - rest) ELSE S0a
  IN [S |-> S0, V |-> V0, L |-> L0a,
      Iu_s |-> Iu_s0, Id_s |-> Id_s0, Ts |-> Ts0,
      Iu_r |-> Iu_r0, Id_r |-> Id_r0, Tr |-> Tr0, R |-> 0]

InitialState(p) ==
  LET N == p["N"] * PS
      annual_incidence == MulFrac(N, incidence_rate_per_year)
      \* annual_incidence / max(sigma, 1e-9)
      L0a == IF p["sigma"] = 0
             THEN (IF annual_incidence = 0 THEN 0 ELSE Cap)
             ELSE MulDiv(annual_incidence, D, p["sigma"])
      Iu_s0 == Max(10 * PS, annual_incidence \div 5)
      Iu_r0 == Max(1 * PS,
                   MulDiv(Iu_s0, p["prop_resistant"], D - p["prop_resistant"]))
      Id_s0 == MulFrac(Iu_s0, 200000)
      Id_r0 == MulFrac(Iu_r0, 200000)
      Ts0 == MulFrac(Id_s0, 500000)
      Tr0 == MulFrac(Id_r0, 500000)
      R0 == 0
      V0 == MulFrac(N, p["vaccine_coverage"])
      rest == Iu_s0 + Iu_r0 + Id_s0 + Id_r0 + Ts0 + Tr0 + R0 + V0
      S0a == N - (L0a + rest)
      S0 == IF S0a < 0 THEN Max(0, N - rest) ELSE S0a
      L0 == IF S0a < 0 THEN N - (S0 + rest) ELSE L0a
  IN [S |-> S0, V |-> V0, L |-> L0,
      Iu_s |-> Iu_s0, Id_s |-> Id_s0, Ts |-> Ts0,
      Iu_r |-> Iu_r0, Id_r |-> Id_r0, Tr |-> Tr0, R |-> R0]

\* ------------------------------------------------------------ monthly step
effective_success(p, base_success) ==
  LET s == MulFrac(MulFrac(base_success, D - p["stockout_frac"]),
                   D - p["ltfu_rate"])
  IN Max(0, Min(990000, s))

\* a * b saturated at Cap (a, b >= 0)
SatMul(a, b) ==
  IF a = 0 \/ b = 0 THEN 0
  ELSE IF a > Cap \div b THEN Cap ELSE Sat(a * b)

\* beta_m = beta / 12 * contact_rate_multiplier; force = beta_m * infectious / Ncur;
\* new_infections = force * effective_S.  One product of reals, evaluated in
\* the order that keeps the intermediate values in range.
NewInfections(beta, cm, infectious, Ncur, effective_S) ==
  LET X == IF Ncur <= 0 THEN 0 ELSE MulDiv(infectious, effective_S, Ncur)
      Y == MulDiv(X, cm, D)
  IN Sat(SatMul((BetaBase \div 1200) * beta[1], Y) + MulDiv(Y, beta[2], 1200))

\* no renewal: natural deaths leave S and V
RenewalNone(x, natdeath_m) == 0

\* a renewal of twice the natural deaths
RenewalDouble(x, natdeath_m) == 2 * MulFrac(x, natdeath_m)

\* a renewal that also credits the 1e-9 of Ncur, rounded up to one unit
RenewalWithEpsilon(x, natdeath_m) == MulFrac(x, natdeath_m) + 1

\* natdeath_m * Ncur * (x / Ncur): the renewal credited to S and V
Renewal(x, natdeath_m) == MulFrac(x, natdeath_m)

\* if arr[m + 1] < 0: arr[m + 1] = 0.0
Clamp(x) == IF x < 0 THEN 0 ELSE Sat(x)

\* One pass of the month loop from state s: the ten compartments at m + 1
\* (before and after the clamp), new_cases_month[m + 1], and the month's
\* notifications and treatment starts.
StepMonth(s, p, r) ==
  LET Ncur == Total(s)
      infectious == s.Iu_s + s.Id_s + s.Iu_r + s.Id_r
      effective_S == s.S + MulFrac(s.V, D - p["vaccine_efficacy"])
      new_infections ==
        NewInfections(p["beta"], p["contact_rate_multiplier"],
                      infectious, Ncur, effective_S)
      new_infections_r == MulFrac(new_infections, p["prop_resistant"])
      new_infections_s == new_infections - new_infections_r
      hiv_frac == p["hiv_prevalence"]
      maln_frac == p["malnut_fraction"]
      maln == (D - maln_frac) + MulFrac(maln_frac, p["malnut_multiplier"])
      sigma_eff_nonhiv == MulFrac(maln, r.sigma_m)
      sigma_eff_hiv ==
        MulFrac(maln, MulFrac(p["hiv_progression_multiplier"], r.sigma_m))
      progressions ==
        MulFrac(s.L, MulFrac(sigma_eff_nonhiv, D - hiv_frac))
          + MulFrac(s.L, MulFrac(sigma_eff_hiv, hiv_frac))
      prog_r == MulFrac(progressions, p["prop_resistant"])
      prog_s == progressions - prog_r
      detected_s == MulFrac(s.Iu_s, r.detection_month)
      detected_r == MulFrac(s.Iu_r, r.detection_month)
      notify_frac ==
        (D - p["private_sector_fraction"])
          + MulFrac(p["private_sector_fraction"], p["private_notify_frac"])
      notified_s == MulFrac(detected_s, notify_frac)
      notified_r == MulFrac(detected_r, notify_frac)
      undetected_nonnotified_s == detected_s - notified_s
      undetected_nonnotified_r == detected_r - notified_r
      start_Ts == MulFrac(notified_s, r.tinit_m)
      start_Tr == MulFrac(notified_r, r.tinit_m)
      deaths_Iu_s == MulFrac(s.Iu_s, r.tbdeath_s_m)
      deaths_Iu_r == MulFrac(s.Iu_r, r.tbdeath_r_m)
      deaths_Id_s == MulFrac(s.Id_s, r.tbdeath_s_m)
      deaths_Id_r == MulFrac(s.Id_r, r.tbdeath_r_m)
      comp_Ts == MulDiv(s.Ts, D, Max(D, p["treatment_duration_months_s"]))
      comp_Tr == MulDiv(s.Tr, D, Max(D, p["treatment_duration_months_r"]))
      succ_Ts == MulFrac(comp_Ts, effective_success(p, p["treatment_success_s"]))
      fail_Ts == comp_Ts - succ_Ts
      succ_Tr == MulFrac(comp_Tr, effective_success(p, p["treatment_success_r"]))
      fail_Tr == comp_Tr - succ_Tr
      new_resistant_from_fail == MulFrac(fail_Ts, fail_to_resistant)
      returned_inf_from_fail_s == fail_Ts - new_resistant_from_fail
      returned_inf_from_fail_r == fail_Tr
      relapses == MulFrac(s.R, r.relapse_m)
      nd == r.natdeath_m
      raw ==
        [S |-> s.S - new_infections - MulFrac(s.S, nd) + Renewal(s.S, nd),
         V |-> s.V - ((0 - MulFrac(s.V, nd)) + Renewal(s.V, nd)),
         L |-> s.L + new_infections_s + new_infections_r + relapses
                 - progressions - MulFrac(s.L, nd),
         Iu_s |-> s.Iu_s + prog_s + undetected_nonnotified_s
                    + returned_inf_from_fail_s - detected_s - deaths_Iu_s
                    - MulFrac(s.Iu_s, nd),
         Iu_r |-> s.Iu_r + prog_r + new_resistant_from_fail
                    + undetected_nonnotified_r + returned_inf_from_fail_r
                    - detected_r - deaths_Iu_r - MulFrac(s.Iu_r, nd),
         Id_s |-> s.Id_s + notified_s - start_Ts - deaths_Id_s
                    - MulFrac(s.Id_s, nd),
         Id_r |-> s.Id_r + notified_r - start_Tr - deaths_Id_r
                    - MulFrac(s.Id_r, nd),
         Ts |-> s.Ts + start_Ts - comp_Ts - MulFrac(s.Ts, nd),
         Tr |-> s.Tr + start_Tr - comp_Tr - MulFrac(s.Tr, nd),
         R |-> s.R + succ_Ts + succ_Tr - relapses - MulFrac(s.R, nd)]
  IN [raw |-> raw,
      next |-> [c \in DOMAIN raw |-> Clamp(raw[c])],
      new_cases |-> progressions,
      notified_s |-> notified_s, notified_r |-> notified_r,
      start_Ts |-> start_Ts, start_Tr |-> start_Tr,
      flows |->
        [new_infections |-> new_infections,
         prog_s |-> prog_s, prog_r |-> prog_r,
         comp_Ts |-> comp_Ts, comp_Tr |-> comp_Tr,
         succ_Ts |-> succ_Ts, succ_Tr |-> succ_Tr,
         fail_Ts |-> fail_Ts, fail_Tr |-> fail_Tr,
         new_resistant_from_fail |-> new_resistant_from_fail,
         returned_inf_from_fail_s |-> returned_inf_from_fail_s,
         returned_inf_from_fail_r |-> returned_inf_from_fail_r,
         relapses |-> relapses,
         deaths_Iu_s |-> deaths_Iu_s, deaths_Iu_r |-> deaths_Iu_r,
         deaths_Id_s |-> deaths_Id_s, deaths_Id_r |-> deaths_Id_r,
         natural_deaths |-> [c \in DOMAIN raw |-> MulFrac(s[c], nd)]]]

\* ------------------------------------------------------- yearly aggregation
RECURSIVE SumRange(_, _, _)
SumRange(seq, i, j) == IF i > j THEN 0 ELSE seq[j] + SumRange(seq, i, j - 1)

\* a yearly total over the twelve months start .. end - 1
AnnualNewTwelve(ncm, y) == SumRange(ncm, 12 * y + 1, Min(12 * y + 12, Len(ncm)))

\* new_cases_month[start:end + 1].sum() for start = 12 y, end = start + 12
\* (month index k is element k + 1; a slice stops at the end of the array)
AnnualNew(ncm, y) == SumRange(ncm, 12 * y + 1, Min(12 * y + 13, Len(ncm)))

\* yearly totals averaged over the horizon
IncidenceYearlyMean(ncm, years) ==
  [y \in 1 .. years |-> AnnualNew(ncm, y - 1) \div years]

IncidenceYearly(ncm, years) == [y \in 1 .. years |-> AnnualNew(ncm, y - 1)]

\* runModel (the JS translation): for (let k=start; k<=end; k++) sum += ...
RECURSIVE runModel_sum(_, _, _)
runModel_sum(ncm, k, end) ==
  IF k > end THEN 0 ELSE ncm[k + 1] + runModel_sum(ncm, k + 1, end)

runModel_incidence_yearly(ncm, years) ==
  [y \in 1 .. years |-> runModel_sum(ncm, 12 * (y - 1), 12 * (y - 1) + 12)]

\* ------------------------------------------------ runModel (JS translation)
\* the conversion to monthly rates of runModel
runModel_rates(p) ==
  [sigma_m |-> p["sigma"] \div 12,
   detection_month |->
     MulDiv(MonthlyHazard(p["detection_rate"]), D,
            Max(D, p["diagnostic_delay_months"])),
   tinit_m |-> MonthlyHazard(p["treatment_initiation_rate"]),
   relapse_m |-> MonthlyHazard(p["relapse_rate"]),
   natdeath_m |-> MonthlyHazard(p["natural_death_rate"]),
   tbdeath_s_m |-> MonthlyHazard(p["tb_death_rate_s"]),
   tbdeath_r_m |-> MonthlyHazard(p["tb_death_rate_r"])]

\* the initial state of runModel: sized from the argument pop, and the latent
\* pool annual_incidence / Math.max(p.sigma, 1e-6)
runModel_initial(pop, p) ==
  LET N == pop * PS
      annual_incidence == MulFrac(N, (195 * D) \div 100000)
      L0a == IF p["sigma"] = 0
             THEN SatMul(annual_incidence, D)
             ELSE MulDiv(annual_incidence, D, p["sigma"])
      Iu_s0 == Max(10 * PS, annual_incidence \div 5)
      Iu_r0 == Max(1 * PS,
                   MulDiv(Iu_s0, p["prop_resistant"], D - p["prop_resistant"]))
      Id_s0 == MulFrac(Iu_s0, 200000)
      Id_r0 == MulFrac(Iu_r0, 200000)
      Ts0 == MulFrac(Id_s0, 500000)
      Tr0 == MulFrac(Id_r0, 500000)
      R0 == 0
      V0 == MulFrac(N, p["vaccine_coverage"])
      rest == Iu_s0 + Iu_r0 + Id_s0 + Id_r0 + Ts0 + Tr0 + R0 + V0
      S0a == N - (L0a + rest)
      S0 == IF S0a < 0 THEN Max(0, N - rest) ELSE S0a
      L0 == IF S0a < 0 THEN N - (S0 + rest) ELSE L0a
  IN [S |-> S0, V |-> V0, L |-> L0,
      Iu_s |-> Iu_s0, Id_s |-> Id_s0, Ts |-> Ts0,
      Iu_r |-> Iu_r0, Id_r |-> Id_r0, Tr |-> Tr0, R |-> R0]

\* the value of 0 / 0 in runModel; NaN < 0 is false, so the clamp keeps it
NaN == 0 - (Cap + 1)

\* x / d of runModel, d unguarded: x / 0 is Infinity (saturated) or NaN
runModel_div(x, d) ==
  IF d = 0 THEN (IF x = 0 THEN NaN ELSE IF x > 0 THEN Cap ELSE 0 - Cap)
  ELSE MulDiv(x, D, d)

\* natdeath_m * Ncur * (x / Ncur) of runModel, Ncur unguarded
runModel_renewal(x, natdeath_m, Ncur) ==
  IF Ncur = 0 THEN NaN ELSE MulFrac(x, natdeath_m)

\* negative values kept
runModel_noClamp(x) == x

\* if (a[m+1] < 0) a[m+1] = 0
runModel_clamp(x) == IF x = NaN THEN NaN ELSE IF x < 0 THEN 0 ELSE Sat(x)

\* one iteration of the month loop of runModel
runModel_step(s, beta, p, r) ==
  LET Ncur == Total(s)
      infectious == s.Iu_s + s.Id_s + s.Iu_r + s.Id_r
      effective_S == s.S + MulFrac(s.V, D - p["vaccine_efficacy"])
      \* force = beta_m * infectious / Math.max(Ncur, 1)
      new_infections ==
        NewInfections(beta, p["contact_rate_multiplier"],
                      infectious, Max(Ncur, PS), effective_S)
      new_infections_r == MulFrac(new_infections, p["prop_resistant"])
      new_infections_s == new_infections - new_infections_r
      hiv_frac == p["hiv_prevalence"]
      maln_frac == p["malnut_fraction"]
      maln == (D - maln_frac) + MulFrac(maln_frac, p["malnut_multiplier"])
      sigma_eff_nonhiv == MulFrac(maln, r.sigma_m)
      sigma_eff_hiv ==
        MulFrac(maln, MulFrac(p["hiv_progression_multiplier"], r.sigma_m))
      progressions ==
        MulFrac(s.L, MulFrac(sigma_eff_nonhiv, D - hiv_frac))
          + MulFrac(s.L, MulFrac(sigma_eff_hiv, hiv_frac))
      prog_r == MulFrac(progressions, p["prop_resistant"])
      prog_s == progressions - prog_r
      detected_s == MulFrac(s.Iu_s, r.detection_month)
      detected_r == MulFrac(s.Iu_r, r.detection_month)
      notify_frac ==
        (D - p["private_sector_fraction"])
          + MulFrac(p["private_sector_fraction"], p["private_notify_frac"])
      notified_s == MulFrac(detected_s, notify_frac)
      notified_r == MulFrac(detected_r, notify_frac)
      undetected_nonnotified_s == detected_s - notified_s
      undetected_nonnotified_r == detected_r - notified_r
      start_Ts == MulFrac(notified_s, r.tinit_m)
      start_Tr == MulFrac(notified_r, r.tinit_m)
      deaths_Iu_s == MulFrac(s.Iu_s, r.tbdeath_s_m)
      deaths_Iu_r == MulFrac(s.Iu_r, r.tbdeath_r_m)
      deaths_Id_s == MulFrac(s.Id_s, r.tbdeath_s_m)
      deaths_Id_r == MulFrac(s.Id_r, r.tbdeath_r_m)
      comp_Ts == runModel_div(s.Ts, p["treatment_duration_months_s"])
      comp_Tr == runModel_div(s.Tr, p["treatment_duration_months_r"])
      succ_Ts == MulFrac(comp_Ts, effective_success(p, p["treatment_success_s"]))
      fail_Ts == comp_Ts - succ_Ts
      succ_Tr == MulFrac(comp_Tr, effective_success(p, p["treatment_success_r"]))
      fail_Tr == comp_Tr - succ_Tr
      new_resistant_from_fail == MulFrac(fail_Ts, D \div 10)
      returned_inf_from_fail_s == fail_Ts - new_resistant_from_fail
      returned_inf_from_fail_r == fail_Tr
      relapses == MulFrac(s.R, r.relapse_m)
      nd == r.natdeath_m
      raw ==
        [S |-> IF Ncur = 0 THEN NaN
               ELSE s.S - new_infections - MulFrac(s.S, nd)
                      + runModel_renewal(s.S, nd, Ncur),
         V |-> IF Ncur = 0 THEN NaN
               ELSE s.V - ((0 - MulFrac(s.V, nd))
                             + runModel_renewal(s.V, nd, Ncur)),
         L |-> s.L + new_infections_s + new_infections_r + relapses
                 - progressions - MulFrac(s.L, nd),
         Iu_s |-> s.Iu_s + prog_s + undetected_nonnotified_s
                    + returned_inf_from_fail_s - detected_s - deaths_Iu_s
                    - MulFrac(s.Iu_s, nd),
         Iu_r |-> s.Iu_r + prog_r + new_resistant_from_fail
                    + undetected_nonnotified_r + returned_inf_from_fail_r
                    - detected_r - deaths_Iu_r - MulFrac(s.Iu_r, nd),
         Id_s |-> s.Id_s + notified_s - start_Ts - deaths_Id_s
                    - MulFrac(s.Id_s, nd),
         Id_r |-> s.Id_r + notified_r - start_Tr - deaths_Id_r
                    - MulFrac(s.Id_r, nd),
         Ts |-> s.Ts + start_Ts - comp_Ts - MulFrac(s.Ts, nd),
         Tr |-> s.Tr + start_Tr - comp_Tr - MulFrac(s.Tr, nd),
         R |-> s.R + succ_Ts + succ_Tr - relapses - MulFrac(s.R, nd)]
  IN [next |-> [c \in DOMAIN raw |-> runModel_clamp(raw[c])],
      new_cases |-> progressions]

\* ------------------------------------------------------------------ inputs
MaxCalls == 2
MaxIter == 40
beta_low_default == BetaOf(1)
beta_high_default == BetaOf(200 * 100)
fallback_beta == BetaOf(448)
\* the factors in the other order
ExpansionFactorsReversed == <<1000, 500>>
\* a third expansion factor
ThreeExpansionFactors == <<500, 1000, 1000>>
ExpansionFactors == <<500, 1000>>

\* (beta in hundredths, years, pop) of the direct calls
RunArgs ==
  { <<448, 1, 1000>>, <<448, 2, 1000>>, <<448, 1, 10>>,
    <<1000000, 1, 500000>>, <<2000000, 1, 500000>>,
    <<10000000, 1, 1000>>, <<20000, 1, 500000>> }

\* (beta in hundredths, years, pop) of the calls a caller makes on their own:
\* an empty horizon, an empty population, a ten-year projection
SoloArgs ==
  { <<448, 0, 1000>>, <<448, 1, 0>>, <<448, 10, 1000000>> }

\* (target cases, pop, tol in hundredths of a case) of the calibrations
CalArgs ==
  { <<975, 500000, 100>>, <<1200, 500000, 100>>, <<1200, 500000, 0>>,
    <<2000, 1000, 100>>, <<5, 10, 100>>, <<1095, 500000, 200>> }

\* the params objects a caller starts from
InitialParams ==
  { NoneParams,
    Mapping(<<>>),
    Mapping([detection_rate |-> 750000, tpt_coverage |-> 150000,
             treatment_success_s |-> 920000, treatment_success_r |-> 900000]),
    Mapping([beta |-> BetaOf(300), treatment_success_s |-> 920000]) }

\* -------------------------------------------------------------------- state
VARIABLES
  params,           \* the caller's params object, passed to every call
  calls,            \* top-level calls started
  hist,             \* completed top-level run_expanded_tb calls
  pc,               \* run_expanded_tb: "idle", "loop", "done"
  call,             \* arguments of the running call, and params before it
  p, rt,            \* the merged parameter copy and the monthly rates
  series,           \* the ten arrays: series[m + 1] is month m
  new_cases_month,
  out,              \* the returned dictionary
  cpc,              \* calibrate_beta_to_cases: where it is
  cal,              \* its arguments
  beta_low, beta_high, f_low, f_high, mid, val,
  k,                \* expansions done
  it,               \* bisection iterations done
  evals,            \* simulator runs made by the calibration
  outcome,          \* "none", "returned" or "raised"
  result,           \* the returned beta
  app,              \* the district run loop: its inputs and its position
  rows              \* results_rows

runvars == <<pc, call, p, rt, series, new_cases_month, out>>
calvars == <<cpc, cal, beta_low, beta_high, f_low, f_high, mid, val, k, it, evals,
             outcome, result>>
vars == <<params, calls, hist, pc, call, p, rt, series, new_cases_month, out,
          cpc, cal, beta_low, beta_high, f_low, f_high, mid, val, k, it, evals,
          outcome, result, app, rows>>
appvars == <<app, rows>>

NoState == [c \in {"S", "V", "L", "Iu_s", "Id_s", "Ts", "Iu_r", "Id_r", "Tr", "R"} |-> 0]
NoOut == [incidence_yearly |-> <<>>, compartments |-> <<>>, params |-> <<>>]

NoApp == [on |-> FALSE, years |-> 0, calibrate_opt |-> FALSE, districts |-> <<>>, i |-> 0]

Init ==
  /\ params \in InitialParams
  /\ calls = 0
  /\ hist = <<>>
  /\ pc = "idle"
  /\ call = [beta |-> BetaOf(0), years |-> 0, pop |-> 0, before |-> NoneParams]
  /\ p = <<>>
  /\ rt = <<>>
  /\ series = <<>>
  /\ new_cases_month = <<>>
  /\ out = NoOut
  /\ cpc = "none"
  /\ cal = [target |-> 0, pop |-> 0, tol |-> 0]
  /\ beta_low = BetaOf(0)
  /\ beta_high = BetaOf(0)
  /\ f_low = 0
  /\ f_high = 0
  /\ mid = BetaOf(0)
  /\ val = 0
  /\ k = 0
  /\ it = 0
  /\ evals = 0
  /\ outcome = "none"
  /\ result = BetaOf(0)
  /\ app = NoApp
  /\ rows = <<>>

\* ---------------------------------------------------------- run_expanded_tb
\* Entry: the parameter merge, the rate conversion, the initial state.
StartRunOn(obj, beta, years, pop) ==
  /\ call' = [beta |-> beta, years |-> years, pop |-> pop, before |-> obj]
  /\ params' = MergedObject(obj, pop, beta)
  /\ p' = EffectiveParams(obj, pop, beta)
  /\ rt' = Rates(p')
  /\ series' = <<InitialState(p')>>
  /\ new_cases_month' = <<0>>
  /\ pc' = "loop"
  /\ out' = out

\* a call that passes the caller's current params object
StartRun(beta, years, pop) == StartRunOn(params, beta, years, pop)

\* a horizon one month short
monthsShort == call.years * 12 - 1

months == call.years * 12

\* for m in range(months): one iteration
Month ==
  /\ pc = "loop"
  /\ Len(series) <= months
  /\ LET st == StepMonth(series[Len(series)], p, rt)
     IN /\ series' = Append(series, st.next)
        /\ new_cases_month' = Append(new_cases_month, st.new_cases)
  /\ UNCHANGED <<params, calls, hist, pc, call, p, rt, out>>
  /\ UNCHANGED calvars
  /\ UNCHANGED appvars

\* the yearly aggregation and the return
Aggregate ==
  /\ pc = "loop"
  /\ Len(series) = months + 1
  /\ out' = [incidence_yearly |-> IncidenceYearly(new_cases_month, call.years),
             compartments |-> series,
             params |-> p]
  /\ pc' = "done"
  /\ UNCHANGED <<params, calls, hist, call, p, rt, series, new_cases_month>>
  /\ UNCHANGED calvars
  /\ UNCHANGED appvars

\* ------------------------------------------------------------ direct caller
CallRun ==
  /\ pc = "idle"
  /\ cpc = "none"
  /\ calls < MaxCalls
  /\ \E a \in RunArgs : StartRun(BetaOf(a[1]), a[2], a[3])
  /\ calls' = calls + 1
  /\ UNCHANGED hist
  /\ UNCHANGED calvars
  /\ UNCHANGED appvars

\* a call that is the only one its caller makes
CallSolo ==
  /\ pc = "idle"
  /\ cpc = "none"
  /\ calls = 0
  /\ \E a \in SoloArgs : StartRun(BetaOf(a[1]), a[2], a[3])
  /\ calls' = MaxCalls
  /\ UNCHANGED hist
  /\ UNCHANGED calvars
  /\ UNCHANGED appvars

\* the caller receives the result of a direct (or reporting) call
Return ==
  /\ pc = "done"
  /\ cpc \in {"none", "report"}
  /\ hist' = Append(hist, [beta |-> call.beta, years |-> call.years,
                           pop |-> call.pop, before |-> call.before,
                           after |-> params, out |-> out])
  /\ pc' = "idle"
  /\ cpc' = IF cpc = "report" THEN "reported" ELSE cpc
  /\ UNCHANGED <<params, calls, call, p, rt, series, new_cases_month, out>>
  /\ UNCHANGED <<cal, beta_low, beta_high, f_low, f_high, mid, val, k, it, evals,
                 outcome, result>>
  /\ UNCHANGED appvars

\* -------------------------------------------------- calibrate_beta_to_cases
\* a * b < 0
ProductNegative(a, b) == (a > 0 /\ b < 0) \/ (a < 0 /\ b > 0)

\* a * b > 0
ProductPositive(a, b) == (a > 0 /\ b > 0) \/ (a < 0 /\ b < 0)

\* run_expanded_tb(...)["incidence_yearly"][0] - target_cases_per_year
F == out.incidence_yearly[1] - cal.target * PS

\* one more simulator run made by the calibration, with the given trial beta
Evaluate(beta) ==
  /\ StartRun(beta, 1, cal.pop)
  /\ evals' = evals + 1

CallCalibrate ==
  /\ pc = "idle"
  /\ cpc = "none"
  /\ calls = 0
  /\ \E a \in CalArgs : cal' = [target |-> a[1], pop |-> a[2], tol |-> a[3]]
  /\ calls' = calls + 1
  /\ beta_low' = beta_low_default
  /\ beta_high' = beta_high_default
  /\ StartRun(beta_low', 1, cal'.pop)
  /\ evals' = 1
  /\ cpc' = "low"
  /\ UNCHANGED <<hist, f_low, f_high, mid, val, k, it, outcome, result>>
  /\ UNCHANGED appvars

\* f_low = ...; then the run at beta_high
CalLow ==
  /\ pc = "done"
  /\ cpc = "low"
  /\ f_low' = F
  /\ Evaluate(beta_high)
  /\ cpc' = "high"
  /\ UNCHANGED <<calls, hist, cal, beta_low, beta_high, f_high, mid, val, k, it,
                 outcome, result>>
  /\ UNCHANGED appvars

\* the first bisection trial: mid = 0.5 * (beta_low + beta_high)
FirstTrial(lo, hi) ==
  /\ mid' = BetaMid(lo, hi)
  /\ Evaluate(mid')
  /\ cpc' = "bisect"

\* f_high = ...; if f_low * f_high > 0: the first expansion
CalHigh ==
  /\ pc = "done"
  /\ cpc = "high"
  /\ f_high' = F
  /\ IF ProductPositive(f_low, f_high')
     THEN /\ beta_high' = BetaTimes(beta_high, ExpansionFactors[1])
          /\ k' = 1
          /\ Evaluate(beta_high')
          /\ cpc' = "expand"
          /\ mid' = mid
     ELSE /\ FirstTrial(beta_low, beta_high)
          /\ UNCHANGED <<beta_high, k>>
  /\ UNCHANGED <<calls, hist, cal, beta_low, f_low, val, it, outcome, result>>
  /\ UNCHANGED appvars

\* after the run at an expanded beta_high: break, expand again, or raise
CalExpand ==
  /\ pc = "done"
  /\ cpc = "expand"
  /\ f_high' = F
  /\ IF ~ProductPositive(f_low, f_high')
     THEN /\ FirstTrial(beta_low, beta_high)
          /\ UNCHANGED <<beta_high, k, outcome>>
     ELSE IF k < Len(ExpansionFactors)
     THEN /\ beta_high' = BetaTimes(beta_high, ExpansionFactors[k + 1])
          /\ k' = k + 1
          /\ Evaluate(beta_high')
          /\ cpc' = "expand"
          /\ UNCHANGED <<mid, outcome>>
     ELSE \* raise ValueError("Unable to bracket root for beta; ...")
          /\ cpc' = "raised"
          /\ outcome' = "raised"
          /\ pc' = "idle"
          /\ UNCHANGED <<beta_high, k, mid, evals, params, call, p, rt, series,
                         new_cases_month, out>>
  /\ UNCHANGED <<calls, hist, cal, beta_low, f_low, val, it, result>>
  /\ UNCHANGED appvars

\* a one-sided tolerance test
ConvergedOneSided(v, tol) == v <= tol

\* abs(val) <= tol
Converged(v, tol) == Abs(v) <= tol

\* returning the upper end of the final bracket
ExhaustedUpper(lo, hi, m) == hi

\* the value returned once the loop is exhausted: return mid
ExhaustedResult(lo, hi, m) == m

\* the body of the bisection loop after the run at mid
CalBisect ==
  /\ pc = "done"
  /\ cpc = "bisect"
  /\ val' = F
  /\ IF Converged(val', cal.tol)
     THEN \* return mid
          /\ cpc' = "returned"
          /\ outcome' = "returned"
          /\ result' = mid
          /\ pc' = "idle"
          /\ UNCHANGED <<beta_low, beta_high, f_low, f_high, mid, it, evals,
                         params, call, p, rt, series, new_cases_month, out>>
     ELSE /\ IF ~ProductPositive(val', f_low)
             THEN /\ beta_high' = mid
                  /\ f_high' = val'
                  /\ UNCHANGED <<beta_low, f_low>>
             ELSE /\ beta_low' = mid
                  /\ f_low' = val'
                  /\ UNCHANGED <<beta_high, f_high>>
          /\ it' = it + 1
          /\ IF it' < MaxIter
             THEN /\ mid' = BetaMid(beta_low', beta_high')
                  /\ Evaluate(mid')
                  /\ cpc' = "bisect"
                  /\ UNCHANGED <<outcome, result>>
             ELSE \* the loop is exhausted: return mid
                  /\ cpc' = "returned"
                  /\ outcome' = "returned"
                  /\ result' = ExhaustedResult(beta_low', beta_high', mid)
                  /\ pc' = "idle"
                  /\ UNCHANGED <<mid, evals, params, call, p, rt, series,
                                 new_cases_month, out>>
  /\ UNCHANGED <<calls, hist, cal, k>>
  /\ UNCHANGED appvars

\* The caller of the calibration runs the model once more with the
\* calibrated beta, or with the fallback beta when the calibration raised.
Report ==
  /\ pc = "idle"
  /\ ~app.on
  /\ cpc \in {"returned", "raised"}
  /\ \E years \in {1, 2} :
       StartRun(IF cpc = "returned" THEN result ELSE fallback_beta, years, cal.pop)
  /\ cpc' = "report"
  /\ UNCHANGED <<calls, hist, cal, beta_low, beta_high, f_low, f_high, mid, val,
                 k, it, evals, outcome, result>>
  /\ UNCHANGED appvars

\* ------------------------------------------------------- district run loop
\* local_params: the parameters built from the UI for one district
local_params(pop) ==
  [N |-> pop,
   detection_rate |-> 750000,
   diagnostic_delay_months |-> 2000000,
   private_sector_fraction |-> 350000,
   private_notify_frac |-> 600000,
   tpt_coverage |-> 150000,
   tpt_efficacy |-> 650000,
   vaccine_coverage |-> 0,
   vaccine_efficacy |-> 0,
   hiv_prevalence |-> 30000,
   hiv_progression_multiplier |-> 4000000,
   malnut_fraction |-> 250000,
   malnut_multiplier |-> 1500000,
   ltfu_rate |-> 50000,
   stockout_frac |-> 50000,
   treatment_success_s |-> 890000,
   treatment_success_r |-> 870000]

\* districts_to_run, as uploaded or entered
DistrictLists ==
  { << [district |-> "A", population |-> 500000, notified_cases |-> 975],
       [district |-> "B", population |-> 500000, notified_cases |-> 1200] >>,
    << [district |-> "B", population |-> 500000, notified_cases |-> 1200] >> }

\* the projection horizon chosen in the sidebar (the slider starts at 3)
HorizonYears == {3}

\* the multiplier applied to the notified cases (its default)
underreporting_factor == 1

\* a beta_cal that takes the calibration's result whatever its outcome
BetaCalOfResult(calibrated, res) == res

\* beta_cal: the calibrated beta, or the fallback when the calibration was
\* skipped or raised
BetaCal(calibrated, res) == IF calibrated THEN res ELSE fallback_beta

CurrentDistrict == app.districts[app.i]

\* the run button is pressed
RunButton ==
  /\ pc = "idle"
  /\ cpc = "none"
  /\ calls = 0
  /\ ~app.on
  /\ \E ds \in DistrictLists, y \in HorizonYears, c \in BOOLEAN :
       app' = [on |-> TRUE, years |-> y, calibrate_opt |-> c, districts |-> ds,
               i |-> 1]
  /\ rows' = <<>>
  /\ cpc' = "district"
  /\ UNCHANGED <<params, calls, hist>>
  /\ UNCHANGED runvars
  /\ UNCHANGED <<cal, beta_low, beta_high, f_low, f_high, mid, val, k, it, evals,
                 outcome, result>>

\* for d in districts_to_run: local_params is built, then the calibration is
\* called, or skipped and the model run with the fallback beta
DistrictBegin ==
  /\ pc = "idle"
  /\ cpc = "district"
  /\ LET d == CurrentDistrict
         obj == Mapping(local_params(d.population))
     IN IF app.calibrate_opt
        THEN /\ cal' = [target |-> d.notified_cases * underreporting_factor,
                        pop |-> d.population, tol |-> PS]
             /\ beta_low' = beta_low_default
             /\ beta_high' = beta_high_default
             /\ StartRunOn(obj, beta_low', 1, d.population)
             /\ evals' = 1
             /\ k' = 0
             /\ it' = 0
             /\ outcome' = "none"
             /\ cpc' = "low"
             /\ UNCHANGED <<f_low, f_high, mid, val, result>>
        ELSE /\ StartRunOn(obj, BetaCal(FALSE, result), app.years, d.population)
             /\ cpc' = "report"
             /\ UNCHANGED <<cal, beta_low, beta_high, f_low, f_high, mid, val, k,
                            it, evals, outcome, result>>
  /\ UNCHANGED <<calls, hist>>
  /\ UNCHANGED appvars

\* the calibration returned or raised (the exception is caught): the model is
\* run with beta_cal over the chosen horizon
DistrictRun ==
  /\ pc = "idle"
  /\ cpc \in {"returned", "raised"}
  /\ app.on
  /\ StartRun(BetaCal(cpc = "returned", result), app.years,
              CurrentDistrict.population)
  /\ cpc' = "report"
  /\ UNCHANGED <<calls, hist, cal, beta_low, beta_high, f_low, f_high, mid, val,
                 k, it, evals, outcome, result>>
  /\ UNCHANGED appvars

\* results_rows.append({...}) and the next iteration of the loop
DistrictAppend ==
  /\ pc = "idle"
  /\ cpc = "reported"
  /\ app.on
  /\ rows' = Append(rows, [district |-> CurrentDistrict.district,
                           population |-> CurrentDistrict.population,
                           notified_cases |-> CurrentDistrict.notified_cases,
                           beta_used |-> call.beta,
                           year1_incidence |-> out.incidence_yearly[1]])
  /\ app' = [app EXCEPT !.i = @ + 1]
  /\ cpc' = IF app.i < Len(app.districts) THEN "district" ELSE "finished"
  /\ UNCHANGED <<params, calls, hist>>
  /\ UNCHANGED runvars
  /\ UNCHANGED <<cal, beta_low, beta_high, f_low, f_high, mid, val, k, it, evals,
                 outcome, result>>

Next ==
  \/ CallRun
  \/ CallSolo
  \/ Month
  \/ Aggregate
  \/ Return
  \/ CallCalibrate
  \/ CalLow
  \/ CalHigh
  \/ CalExpand
  \/ CalBisect
  \/ Report
  \/ RunButton
  \/ DistrictBegin
  \/ DistrictRun
  \/ DistrictAppend

Spec == Init /\ [][Next]_vars

\* ------------------------------------------------- the month loop on its own
\* The loop body of run_expanded_tb is a function of the month-m state and of
\* the effective parameters.  StepSpec enters the loop of a one-year run on a
\* given state: a month-0 state built by the initial-state algorithm, or a
\* depleted one (nobody at all, only vaccinated people, only susceptibles).
StepParams ==
  { default(1000, BetaOf(448)),
    default(0, BetaOf(448)),
    [default(1000, BetaOf(448)) EXCEPT !["vaccine_coverage"] = 500000,
                                       !["vaccine_efficacy"] = 600000],
    [default(1000, BetaOf(10000000)) EXCEPT !["vaccine_coverage"] = 300000,
                                            !["vaccine_efficacy"] = 0] }

StepStates(q) ==
  { InitialState(q),
    NoState,
    [NoState EXCEPT !.V = 1000 * PS],
    [NoState EXCEPT !.S = 1000 * PS] }

StepInit ==
  /\ params = NoneParams
  /\ calls = MaxCalls
  /\ hist = <<>>
  /\ pc = "loop"
  /\ p \in StepParams
  /\ call = [beta |-> p["beta"], years |-> 1, pop |-> p["N"], before |-> NoneParams]
  /\ rt = Rates(p)
  /\ series \in {<<s>> : s \in StepStates(p)}
  /\ new_cases_month = <<0>>
  /\ out = NoOut
  /\ cpc = "none"
  /\ cal = [target |-> 0, pop |-> 0, tol |-> 0]
  /\ beta_low = BetaOf(0)
  /\ beta_high = BetaOf(0)
  /\ f_low = 0
  /\ f_high = 0
  /\ mid = BetaOf(0)
  /\ val = 0
  /\ k = 0
  /\ it = 0
  /\ evals = 0
  /\ outcome = "none"
  /\ result = BetaOf(0)
  /\ app = NoApp
  /\ rows = <<>>

StepNext ==
  \/ Month
  \/ Aggregate

StepSpec == StepInit /\ [][StepNext]_vars

\* ================================================================== claims
Compartments == {"S", "V", "L", "Iu_s", "Iu_r", "Id_s", "Id_r", "Ts", "Tr", "R"}
LastCall == hist[Len(hist)]
\* the contents of two params objects agree
SameObject(a, b) ==
  /\ a.none = b.none
  /\ DOMAIN a.d = DOMAIN b.d
  /\ \A key \in DOMAIN a.d : a.d[key] = b.d[key]
\* Year-1 incidence is within tol of the calibration target
WithinTol(inc) ==
  /\ inc - cal.target * PS <= cal.tol
  /\ cal.target * PS - inc <= cal.tol

\* C1: in a call with population >= 1 and years >= 1, every compartment of
\* every month computed so far, month 0 included, is >= 0.
C1_NonNegative ==
  (call.pop >= 1 /\ call.years >= 1)
    => \A i \in 1 .. Len(series) : \A c \in Compartments : series[i][c] >= 0

\* C2 as stated: whenever the calibration returned a beta, the Year-1
\* incidence of a one-year run with that beta is within tol of the target.
C2_RoundTripAlways ==
  (cpc = "reported" /\ outcome = "returned" /\ LastCall.years = 1)
    => WithinTol(LastCall.out.incidence_yearly[1])

\* C2 amended: whenever the calibration returned from inside the bisection
\* loop (before the 40 iterations were used up), the Year-1 incidence of a
\* one-year run with the returned beta is within tol of the target.
C2_RoundTripConverged ==
  (cpc = "reported" /\ outcome = "returned" /\ it < MaxIter
     /\ LastCall.years = 1)
    => WithinTol(LastCall.out.incidence_yearly[1])

C2_Witness ==
  /\ cpc = "reported"
  /\ outcome = "returned"
  /\ it < MaxIter
  /\ LastCall.years = 1
  /\ LastCall.beta = result
  /\ ~LastCall.before.none

\* C3: a calibration whose target exceeds the population never returns a
\* beta.
C3_InfeasibleNeverReturns ==
  (cal.target > cal.pop) => outcome # "returned"

\* the params object holds nothing but default values
AllDefault(obj) ==
  obj.none \/ \A key \in DOMAIN obj.d \ {"N", "beta"} :
                 obj.d[key] = default(0, BetaOf(0))[key]

\* C4: with population 500,000, default parameters, target 975 and
\* tolerance 1.0 the calibration does not raise the bracketing failure, and
\* the beta it returns reproduces 975 within the tolerance.
C4_Scenario975 ==
  (cal.target = 975 /\ cal.pop = 500000 /\ cal.tol = PS /\ AllDefault(params))
    => /\ outcome # "raised"
       /\ (cpc = "reported" /\ LastCall.years = 1)
            => WithinTol(LastCall.out.incidence_yearly[1])

\* C5: a call leaves the caller's params object as it was before the call.
C5_NoSideEffect ==
  \A i \in 1 .. Len(hist) : SameObject(hist[i].before, hist[i].after)

\* the value the merge is documented to give key of call h
Merged(h, key) ==
  IF ~h.before.none /\ key \in DOMAIN h.before.d THEN h.before.d[key]
  ELSE default(h.pop, h.beta)[key]

\* C6 as stated: the effective parameter set has the override's value for
\* every key of the override and the default for every other key.
C6_MergeAllKeys ==
  \A i \in 1 .. Len(hist) : \A key \in Keys :
    hist[i].out.params[key] = Merged(hist[i], key)

\* C6 amended: the effective parameter set has, for every key other than
\* "beta", the override's value when the override has the key and the default
\* otherwise; its "beta" is always the beta argument, also when the override
\* has a "beta" key.
C6_MergeButBeta ==
  \A i \in 1 .. Len(hist) :
    /\ DOMAIN hist[i].out.params = Keys
    /\ \A key \in Keys \ {"beta"} :
         hist[i].out.params[key] = Merged(hist[i], key)
    /\ hist[i].out.params["beta"] = hist[i].beta

C6_Witness ==
  /\ Len(hist) >= 1
  /\ ~hist[1].before.none
  /\ "detection_rate" \in DOMAIN hist[1].before.d
  /\ "sigma" \notin DOMAIN hist[1].before.d
  /\ hist[1].out.params["detection_rate"] = 750000
  /\ hist[1].out.params["sigma"] = 100000

\* C7: two calls with the same beta, years and pop on the same mapping
\* object return the same yearly incidence and the same compartment arrays.
C7_Determinism ==
  \A i, j \in 1 .. Len(hist) :
    (hist[i].beta = hist[j].beta /\ hist[i].years = hist[j].years
       /\ hist[i].pop = hist[j].pop)
      => /\ hist[i].out.incidence_yearly = hist[j].out.incidence_yearly
         /\ hist[i].out.compartments = hist[j].out.compartments

C7_Witness ==
  /\ Len(hist) = 2
  /\ hist[1].beta = hist[2].beta
  /\ hist[1].years = hist[2].years
  /\ hist[1].pop = hist[2].pop
  /\ ~hist[1].before.none
  /\ ~SameObject(hist[1].before, hist[2].before)

\* the two calls ran with the same parameters, beta aside
SameParamsButBeta(g, h) ==
  \A key \in Keys \ {"beta"} : g.out.params[key] = h.out.params[key]

\* C8: for the same population, horizon and parameters, Year-1 incidence is
\* non-decreasing in beta.
C8_Monotone ==
  \A i, j \in 1 .. Len(hist) :
    (hist[i].years = hist[j].years /\ hist[i].years >= 1
       /\ SameParamsButBeta(hist[i], hist[j])
       /\ BetaLeq(hist[i].beta, hist[j].beta))
      => hist[i].out.incidence_yearly[1] <= hist[j].out.incidence_yearly[1]

\* C9: in a call with population >= 1 and years >= 1, at every month the ten
\* compartments sum to the configured population N within a drift of at most
\* N, whatever the horizon.
C9_Conservation ==
  (call.pop >= 1 /\ call.years >= 1) =>
  \A i \in 1 .. Len(series) :
    /\ Total(series[i]) <= 2 * p["N"] * PS
    /\ Total(series[i]) >= 0

\* C10: when the 40 bisection iterations are used up without a midpoint
\* meeting the tolerance, the calibration returns (it does not raise), and
\* what it returns is the last midpoint, the beta of its last simulator run.
C10_NonConvergenceReturns ==
  (cpc \in {"returned", "raised"} /\ it = MaxIter)
    => /\ outcome = "returned"
       /\ cpc = "returned"
       /\ result = mid
       /\ result = call.beta
       /\ evals = 2 + k + MaxIter

C10_Witness ==
  /\ cpc = "returned"
  /\ it = MaxIter
  /\ ~WithinTol(out.incidence_yearly[1])

\* the calibration is between its entry and its return or raise
Calibrating == cpc \in {"low", "high", "expand", "bisect"}

\* the steps a calibration of one-year runs has left at most: 44 simulator
\* runs of 12 month steps, an aggregation and an evaluation of the result each
WorkLeft ==
  IF ~Calibrating THEN 0
  ELSE (44 - evals) * 14 + (IF pc = "loop" THEN 14 - Len(series) ELSE 0) + 1

\* a calibration in progress has a next step to take
CanStep == Calibrating => (pc = "done" \/ (pc = "loop" /\ Len(series) <= 13))

\* what one step does to the work done and to the work that is left
BoundedStep ==
  /\ k' <= 2 /\ it' <= 40 /\ evals' <= 2 + k' + it' + 1 /\ evals' <= 44
  /\ Calibrating =>
       /\ WorkLeft' < WorkLeft
       /\ WorkLeft' >= 0
       /\ cpc' \in {"low", "high", "expand", "bisect", "returned", "raised"}
  /\ (Calibrating /\ pc = "done") =>
       (Len(series) = 12 * call.years + 1 /\ call.years = 1)
  /\ (Calibrating /\ ~Calibrating') =>
       \/ cpc' = "returned" /\ outcome' = "returned"
       \/ cpc' = "raised" /\ outcome' = "raised"

\* C11: a calibration makes at most 2 bracket runs, 2 expansion runs and 40
\* bisection runs (44 simulator runs in all); every simulator run takes
\* exactly years*12 month steps; and every step of a calibration strictly
\* decreases the work that is left and leaves a next step to take, so the
\* calibration ends, with a returned beta or with the bracketing failure.
C11_BoundedWork == []CanStep /\ [][BoundedStep]_vars

C11_Witness ==
  /\ cpc = "returned"
  /\ evals = 42
  /\ it = 40
  /\ ~app.on

\* the annual rates that are converted to monthly hazards
AnnualRates ==
  {"detection_rate", "treatment_initiation_rate", "relapse_rate",
   "natural_death_rate", "tb_death_rate_s", "tb_death_rate_r"}

\* C12: a call that ran the model and has a result to return was made with
\* years >= 1, population >= 1 and every annual rate in [0, 1).
C12_InvalidRejected ==
  (pc = "done")
    => /\ call.years >= 1
       /\ call.pop >= 1
       /\ \A key \in AnnualRates : p[key] >= 0 /\ p[key] < D

\* one row per district processed so far, in input order
RowsFollowInput ==
  app.on =>
    /\ Len(rows) = (IF cpc = "finished" THEN Len(app.districts) ELSE app.i - 1)
    /\ \A j \in 1 .. Len(rows) :
         /\ rows[j].district = app.districts[j].district
         /\ rows[j].population = app.districts[j].population
         /\ rows[j].notified_cases = app.districts[j].notified_cases

\* what a step of the district loop does after a skipped or failed calibration
FallbackStep ==
  /\ (app.on /\ cpc = "raised")
       => /\ cpc' = "report"
          /\ call'.beta = fallback_beta
          /\ call'.years = app.years
          /\ call'.pop = CurrentDistrict.population
          /\ app' = app /\ rows' = rows
  /\ (app.on /\ cpc = "district" /\ ~app.calibrate_opt)
       => /\ cpc' = "report"
          /\ call'.beta = fallback_beta
          /\ call'.years = app.years
          /\ call'.pop = CurrentDistrict.population
  /\ (app.on /\ rows' # rows)
       => /\ rows' = Append(rows, rows'[Len(rows')])
          /\ rows'[Len(rows')].beta_used = call.beta
          /\ rows'[Len(rows')].district = CurrentDistrict.district
          /\ (outcome = "raised" \/ ~app.calibrate_opt)
               => rows'[Len(rows')].beta_used = fallback_beta
          /\ app'.i = app.i + 1

\* C13: in the district run loop, when the calibration is skipped or raises,
\* the reporting run of that district is still made, with the fallback beta,
\* and the loop goes on; every district gets exactly one row, in input order.
C13_FallbackBeta == []RowsFollowInput /\ [][FallbackStep]_vars

C13_Witness ==
  /\ cpc = "finished"
  /\ app.calibrate_opt
  /\ Len(rows) = 2
  /\ rows[1].beta_used = fallback_beta
  /\ rows[2].beta_used # fallback_beta
  /\ outcome = "returned"

\* new_cases_month at month index m
CasesAt(m) == new_cases_month[m + 1]

\* the 13 month indices 12y .. 12y+12 added one by one
ThirteenMonths(y) ==
  CasesAt(12 * y) + CasesAt(12 * y + 1) + CasesAt(12 * y + 2)
    + CasesAt(12 * y + 3) + CasesAt(12 * y + 4) + CasesAt(12 * y + 5)
    + CasesAt(12 * y + 6) + CasesAt(12 * y + 7) + CasesAt(12 * y + 8)
    + CasesAt(12 * y + 9) + CasesAt(12 * y + 10) + CasesAt(12 * y + 11)
    + CasesAt(12 * y + 12)

RECURSIVE SumOver(_, _)
SumOver(f, S) ==
  IF S = {} THEN 0
  ELSE LET x == CHOOSE x \in S : TRUE IN f[x] + SumOver(f, S \ {x})

\* C14: the returned incidence_yearly has exactly `years` entries; entry y is
\* the sum of new_cases_month over the 13 indices 12y .. 12y+12; so the
\* yearly totals together count every interior boundary month 12k twice and
\* every other month once; the JS translation's loop gives the same totals.
C14_YearlyAggregation ==
  (pc = "done") =>
    /\ Len(out.incidence_yearly) = call.years
    /\ Len(new_cases_month) = 12 * call.years + 1
    /\ \A y \in 0 .. call.years - 1 :
         out.incidence_yearly[y + 1] = ThirteenMonths(y)
    /\ SumOver(out.incidence_yearly, 1 .. call.years)
         = SumOver(new_cases_month, 1 .. Len(new_cases_month))
             + SumOver([j \in 1 .. call.years - 1 |-> CasesAt(12 * j)],
                       1 .. call.years - 1)
    /\ runModel_incidence_yearly(new_cases_month, call.years)
         = out.incidence_yearly

C14_Witness ==
  /\ pc = "done"
  /\ call.years = 3
  /\ CasesAt(12) > 0
  /\ CasesAt(24) > 0
  /\ out.incidence_yearly[2] > SumOver(new_cases_month, 14 .. 25)

\* C15: a run that has reached its return has applied the monthly step
\* exactly years*12 times; each of the ten compartments has years*12+1
\* entries, indexed 0 .. years*12; entry 0 is the initial state built from the
\* parameters, and entry m+1 is the monthly step applied to entry m; while
\* the loop runs, a step appends one entry and leaves the earlier ones alone.
C15_SeriesShape ==
  /\ [](pc = "done" =>
          /\ Len(series) = 12 * call.years + 1
          /\ \A i \in 1 .. Len(series) : DOMAIN series[i] = Compartments
          /\ series[1] = InitialState(p)
          /\ \A m \in 1 .. 12 * call.years :
               series[m + 1] = StepMonth(series[m], p, rt).next
          /\ out.compartments = series)
  /\ [][(pc = "loop" /\ series' # series /\ pc' = "loop")
          => /\ Len(series') = Len(series) + 1
             /\ Len(series') <= 12 * call.years + 1
             /\ \A i \in 1 .. Len(series) : series'[i] = series[i]
             /\ p' = p /\ rt' = rt]_vars

C15_Witness ==
  /\ pc = "done"
  /\ call.years = 10
  /\ Len(series) = 121
  /\ series[121] # series[120]

\* the parameters of a run, its beta aside
FixedOf(q) == [key \in DOMAIN q \ {"beta"} |-> q[key]]

\* the beta the calibration is trying
TrialBeta(c) ==
  IF c = "low" THEN beta_low
  ELSE IF c = "bisect" THEN mid
  ELSE beta_high

\* the finished run of a trial is the simulation of its own parameters
TrialIsOwnSimulation ==
  (Calibrating /\ pc = "done") =>
    /\ p["beta"] = TrialBeta(cpc)
    /\ p["N"] = cal.pop
    /\ rt = Rates(p)
    /\ series[1] = InitialState(p)
    /\ \A m \in 1 .. 12 :
         /\ series[m + 1] = StepMonth(series[m], p, rt).next
         /\ new_cases_month[m + 1] = StepMonth(series[m], p, rt).new_cases
    /\ new_cases_month[1] = 0
    /\ F = SumOver(new_cases_month, 1 .. 13) - cal.target * PS

\* from one trial to the next only the beta changes
TrialStep ==
  (Calibrating /\ Calibrating')
    => /\ FixedOf(p') = FixedOf(p)
       /\ cal' = cal
       /\ p'["beta"] = call'.beta
       /\ call'.beta = TrialBeta(cpc)'

\* C16: within one calibration every trial is the simulation of the fixed
\* population and parameters with the trial's own beta: the value f(beta)
\* is computed from the trial's parameter copy alone, and that copy differs
\* from the copies of the other trials in its beta only, which is the trial
\* beta even when the shared mapping holds the beta of an earlier trial.
C16_IndependentTrials == []TrialIsOwnSimulation /\ [][TrialStep]_vars

C16_Witness ==
  /\ cpc = "bisect"
  /\ pc = "done"
  /\ it >= 1
  /\ ~params.none
  /\ params.d["beta"] # mid
  /\ p["beta"] = mid

\* detection_rate, tpt_coverage and both treatment success rates of the run
\* are above their defaults
InterventionsAboveDefault(q) ==
  \A key \in {"detection_rate", "tpt_coverage", "treatment_success_s",
               "treatment_success_r"} :
    q[key] > default(0, BetaOf(0))[key]

\* C17: a completed ten-year run with population 1,000,000, the fallback
\* beta, detection_rate, tpt_coverage and treatment success above their
\* defaults and every other parameter at its default has Year-1 incidence
\* strictly greater than Year-10 incidence.
C17_InterventionSanity ==
  \A i \in 1 .. Len(hist) :
    (/\ hist[i].pop = 1000000
     /\ hist[i].years = 10
     /\ hist[i].beta = fallback_beta
     /\ hist[i].out.params["N"] = 1000000
     /\ InterventionsAboveDefault(hist[i].out.params)
     /\ \A key \in Keys \ {"N", "beta", "detection_rate", "tpt_coverage",
                            "treatment_success_s", "treatment_success_r"} :
          hist[i].out.params[key] = default(0, BetaOf(0))[key])
      => hist[i].out.incidence_yearly[1] > hist[i].out.incidence_yearly[10]

\* a and b are both > 0 or both < 0
SameStrictSign(a, b) == (a > 0 /\ b > 0) \/ (a < 0 /\ b < 0)

\* what a step does to the bracket before the bisection starts
BracketStep ==
  /\ (cpc = "high" /\ cpc' = "expand")
       => /\ SameStrictSign(f_low, f_high')
          /\ k' = 1
          /\ beta_high' = BetaTimes(beta_high_default, 500)
          /\ call'.beta = beta_high'
  /\ (cpc = "expand" /\ k' # k)
       => /\ cpc' = "expand"
          /\ SameStrictSign(f_low, f_high')
          /\ k = 1 /\ k' = 2
          /\ beta_high = BetaTimes(beta_high_default, 500)
          /\ beta_high' = BetaTimes(beta_high, 1000)
          /\ call'.beta = beta_high'
  /\ (cpc # "raised" /\ cpc' = "raised")
       => /\ cpc = "expand"
          /\ k = 2
          /\ beta_high = BetaTimes(BetaTimes(beta_high_default, 500), 1000)
          /\ SameStrictSign(f_low, f_high')
  /\ (cpc # "bisect" /\ cpc' = "bisect")
       => /\ cpc \in {"high", "expand"}
          /\ ~SameStrictSign(f_low', f_high')
          /\ beta_high' = beta_high
          /\ it' = 0
          /\ mid' = BetaMid(beta_low', beta_high')
  /\ (cpc \in {"low", "high", "expand"})
       => /\ beta_low' = beta_low_default
          /\ (cpc # "low" => f_low' = f_low)
          /\ f_low' = f_low \/ cpc = "low"

\* C18: the upper bound is expanded only when f(beta_low) and f(beta_high)
\* have the same strict sign; the first expansion multiplies beta_high by 500
\* and runs the model again, the second multiplies the expanded bound by
\* 1000 and runs it again; the failure is raised only after both expansions
\* left the signs equal; bisection starts only on a bracketed interval.
C18_ExpansionOrder == [][BracketStep]_vars

C18_Witness ==
  /\ cpc = "bisect"
  /\ it = 0
  /\ k = 1
  /\ beta_high = BetaTimes(beta_high_default, 500)
  /\ f_low < 0
  /\ f_high > 0

\* at the start of an iteration: the order of the bracket and its midpoint,
\* and the signs of the stored values (beta is carried in hundredths: once
\* the bracket is one hundredth wide its midpoint is beta_low itself)
BracketInvariant ==
  (cpc = "bisect") =>
    /\ ~SameStrictSign(f_low, f_high)
    /\ mid = BetaMid(beta_low, beta_high)
    /\ BetaLeq(beta_low, mid)
    /\ BetaLeq(mid, beta_high)
    /\ (it = 0 \/ BetaLess(beta_low, mid)) =>
         (BetaLess(beta_low, beta_high) /\ BetaLess(mid, beta_high))
    /\ call.beta = mid
    /\ it < 40

\* the stored values are taken from the run at the endpoint they belong to,
\* and an iteration that does not return moves one endpoint to the midpoint
BisectionStep ==
  /\ (Calibrating /\ f_low' # f_low)
       => (pc = "done" /\ f_low' = F /\ beta_low' = call.beta)
  /\ (Calibrating /\ beta_low' # beta_low)
       => (pc = "done" /\ f_low' = F /\ beta_low' = call.beta)
  /\ (Calibrating /\ f_high' # f_high)
       => (pc = "done" /\ f_high' = F
           /\ call.beta = (IF cpc = "bisect" THEN beta_high' ELSE beta_high))
  /\ (cpc \in {"high", "expand"} /\ cpc' = "bisect")
       => (f_high' = F /\ beta_high' = call.beta /\ beta_low' = beta_low)
  /\ (cpc = "bisect" /\ beta_high' # beta_high)
       => (pc = "done" /\ f_high' = F /\ beta_high' = call.beta)
  /\ (cpc = "bisect" /\ it' = it + 1)
       => /\ Abs(F) > cal.tol
          /\ \/ /\ beta_high' = mid /\ f_high' = F
                /\ beta_low' = beta_low /\ f_low' = f_low
                /\ ~SameStrictSign(F, f_low)
             \/ /\ beta_low' = mid /\ f_low' = F
                /\ beta_high' = beta_high /\ f_high' = f_high
                /\ SameStrictSign(F, f_low)
          /\ ~SameStrictSign(f_low', f_high')
          /\ BetaLess(beta_low, mid) => BetaLess(beta_low', beta_high')
  /\ (cpc = "bisect" /\ it' = it)
       => (beta_low' = beta_low /\ beta_high' = beta_high
           /\ f_low' = f_low /\ f_high' = f_high)

\* C19: at the start of every bisection iteration beta_low <= mid <=
\* beta_high, strictly while the bracket is wider than the unit beta is
\* carried in; the stored f_low and f_high are the values of the runs at the
\* current beta_low and beta_high and do not have the same strict sign; an
\* iteration that does not return replaces exactly one endpoint, and its
\* stored value, by the midpoint and its value, keeping the other.
C19_BracketInvariant == []BracketInvariant /\ [][BisectionStep]_vars

C19_Witness ==
  /\ cpc = "bisect"
  /\ pc = "done"
  /\ it >= 5
  /\ beta_low # beta_low_default
  /\ beta_high # beta_high_default
  /\ k = 0
  /\ BetaLess(beta_low, mid)
  /\ f_low < 0
  /\ f_high > 0

\* C20: in a call with population >= 1 and years >= 1, the treatment starts
\* of the month just computed are the monthly initiation hazard tinit_m
\* applied to the detected pools Id_s and Id_r of the month before.
C20_InitiationFromDetectedPool ==
  (call.pop >= 1 /\ call.years >= 1 /\ pc = "loop" /\ Len(series) >= 2) =>
    LET s == series[Len(series) - 1]
        st == StepMonth(s, p, rt)
    IN /\ st.start_Ts = MulFrac(s.Id_s, rt.tinit_m)
       /\ st.start_Tr = MulFrac(s.Id_r, rt.tinit_m)

\* ---------------------------------------------------------------------- C21
\* the run has built its month-0 state
Initialised == pc \in {"loop", "done"} /\ Len(series) >= 1

\* C21: in every run, whichever branch of the initial-state algorithm was
\* taken (the first S0 non-negative, or the fallback that clamps S0 and
\* recomputes L0 as the residual), the ten month-0 compartments sum exactly
\* to the population N of the effective parameters.
C21_InitialBalance ==
  Initialised => Total(series[1]) = p["N"] * PS

\* the fallback branch was taken: S0 clamped to 0 and L0 the (negative) residual
C21_Witness ==
  /\ Initialised
  /\ p["N"] = 10
  /\ series[1].S = 0
  /\ series[1].L < 0
  /\ Total(series[1]) = 10 * PS

\* ---------------------------------------------------------------------- C22
\* a month has been computed: series[Len(series)] follows series[Len(series) - 1]
Stepped == pc \in {"loop", "done"} /\ Len(series) >= 2

LastFrom == series[Len(series) - 1]
LastStep == StepMonth(LastFrom, p, rt)

Susceptible(s) == s.Iu_s + s.Id_s + s.Ts
Resistant(s) == s.Iu_r + s.Id_r + s.Tr

\* C22: in every monthly step, one tenth of the failed drug-susceptible
\* completions enters Iu_r and the rest of them returns to Iu_s; every failed
\* resistant completion returns to Iu_r; the resistant strand (Iu_r, Id_r, Tr)
\* gains only resistant progressions and that tenth and loses only successes
\* (to R) and deaths, and the susceptible strand (Iu_s, Id_s, Ts) gains only
\* susceptible progressions: nothing moves from the resistant strand to the
\* susceptible one.
C22_ResistanceNeverLost ==
  Stepped =>
    LET s == LastFrom
        st == LastStep
        fl == st.flows
        nat == fl.natural_deaths
    IN /\ fl.new_resistant_from_fail = MulFrac(fl.fail_Ts, D \div 10)
       /\ fl.returned_inf_from_fail_s = fl.fail_Ts - fl.new_resistant_from_fail
       /\ fl.returned_inf_from_fail_r = fl.fail_Tr
       /\ fl.fail_Ts = fl.comp_Ts - fl.succ_Ts
       /\ fl.fail_Tr = fl.comp_Tr - fl.succ_Tr
       /\ Resistant(st.raw) =
            Resistant(s) + fl.prog_r + fl.new_resistant_from_fail - fl.succ_Tr
              - fl.deaths_Iu_r - fl.deaths_Id_r
              - nat.Iu_r - nat.Id_r - nat.Tr
       /\ Susceptible(st.raw) =
            Susceptible(s) + fl.prog_s - fl.new_resistant_from_fail - fl.succ_Ts
              - fl.deaths_Iu_s - fl.deaths_Id_s
              - nat.Iu_s - nat.Id_s - nat.Ts
       /\ series[Len(series)] = st.next

\* a step in which completions of both strands failed and some of the failed
\* susceptible ones acquired resistance
C22_Witness ==
  /\ Stepped
  /\ LastStep.flows.fail_Ts > 0
  /\ LastStep.flows.fail_Tr > 0
  /\ LastStep.flows.new_resistant_from_fail > 0
  /\ LastStep.flows.returned_inf_from_fail_s > 0

\* ---------------------------------------------------------------------- C23
\* C23: when every compartment is 0 at month m, the step is computed (the
\* force of infection divides by Ncur = 0 + 1e-9, never by zero) and month
\* m + 1 has every compartment 0 and new_cases_month 0: the empty state is a
\* fixed point of the loop.
C23_EmptyFixedPoint ==
  (Stepped /\ LastFrom = NoState) =>
    /\ series[Len(series)] = NoState
    /\ LastStep.raw = NoState
    /\ new_cases_month[Len(series)] = 0

\* a whole year computed from the empty state
C23_Witness ==
  /\ pc = "done"
  /\ Len(series) = 13
  /\ series[1] = NoState
  /\ series[13] = NoState
  /\ out.incidence_yearly = <<0>>

\* ---------------------------------------------------------------------- C24
\* the conditions under which the guards of the two implementations agree:
\* sigma >= 1e-6, both treatment durations at least one month
GuardsAgree ==
  /\ p["sigma"] >= 1
  /\ p["treatment_duration_months_s"] >= D
  /\ p["treatment_duration_months_r"] >= D

\* runModel(beta, years, pop, p), called with the arguments of the running
\* call and its effective parameters, builds the month-0 state of the run,
\* takes the step the run has just taken, and aggregates the same incidence
SameAsRunModel ==
  /\ series[1] = runModel_initial(call.pop, p)
  /\ (Len(series) >= 2 /\ Total(LastFrom) >= PS) =>
       LET js == runModel_step(LastFrom, call.beta, p, runModel_rates(p))
       IN /\ js.next = series[Len(series)]
          /\ js.new_cases = new_cases_month[Len(series)]
  /\ (pc = "done" /\ \A m \in 1 .. Len(series) : Total(series[m]) >= PS) =>
       runModel_incidence_yearly(new_cases_month, call.years)
         = out.incidence_yearly

PopulationUsed(h) ==
  IF ~h.before.none /\ "N" \in DOMAIN h.before.d THEN h.before.d["N"] ELSE h.pop

\* C25: every completed call simulates the "N" of the mapping it was given
\* when the mapping has one and its pop argument only otherwise; so when a
\* mapping lacking "N" has been passed to a call with pop1, a later call
\* with the same mapping object and another pop still simulates pop1.
C25_PopulationSticks ==
  \A i \in 1 .. Len(hist) :
    /\ hist[i].out.params["N"] = PopulationUsed(hist[i])
    /\ Total(hist[i].out.compartments[1]) = PopulationUsed(hist[i]) * PS
    /\ (i >= 2 /\ ~hist[i].before.none /\ hist[i].before = hist[i - 1].after) =>
         hist[i].out.params["N"] = hist[i - 1].out.params["N"]

\* a mapping without "N" passed to a call for 1000 people and then to a
\* call for 10 people, which simulated 1000
C25_Witness ==
  /\ Len(hist) = 2
  /\ ~hist[1].before.none
  /\ ~("N" \in DOMAIN hist[1].before.d)
  /\ hist[1].pop = 1000
  /\ hist[2].pop = 10
  /\ hist[2].before = hist[1].after
  /\ hist[2].out.params["N"] = 1000
  /\ Total(hist[2].out.compartments[1]) = 1000 * PS

\* ---------------------------------------------------------------------- C26
\* C26: in every step V[m+1] = V[m] (natural death and renewal cancel) and
\* S[m+1] = max(0, S[m] - new_infections), where new_infections is the force
\* of infection applied to S[m] + (1 - vaccine_efficacy) * V[m]; so V is
\* constant and S never increases over the run.
C26_VaccinatedFrozen ==
  Stepped =>
    LET s == LastFrom
        t == series[Len(series)]
        ni == LastStep.flows.new_infections
    IN /\ t.V = s.V
       /\ t.S = Max(0, s.S - ni)
       /\ ni = NewInfections(p["beta"], p["contact_rate_multiplier"],
                              s.Iu_s + s.Id_s + s.Iu_r + s.Id_r, Total(s),
                              s.S + MulFrac(s.V, D - p["vaccine_efficacy"]))
       /\ ni >= 0
       /\ \A m \in 1 .. Len(series) - 1 :
            /\ series[m + 1].V = series[1].V
            /\ series[m + 1].S <= series[m].S

\* a year with vaccinated people who are partly protected: V unchanged, S
\* lower every month, infections drawn on S alone
C26_Witness ==
  /\ pc = "done"
  /\ Len(series) = 13
  /\ series[1].V > 0
  /\ p["vaccine_efficacy"] > 0
  /\ p["vaccine_efficacy"] < D
  /\ series[13].V = series[1].V
  /\ \A m \in 1 .. 12 : series[m + 1].S < series[m].S
  /\ LastStep.flows.new_infections > 0

\* ---------------------------------------------------------------------- C27
\* TB deaths of the last step, in Iu_s, Iu_r, Id_s, Id_r
TBDeaths(fl) == fl.deaths_Iu_s + fl.deaths_Iu_r + fl.deaths_Id_s + fl.deaths_Id_r

\* natural deaths of the last step in L, Iu, Id, T and R (those of S and V
\* are renewed)
NaturalDeaths(fl) ==
  LET nat == fl.natural_deaths
  IN nat.L + nat.Iu_s + nat.Iu_r + nat.Id_s + nat.Id_r + nat.Ts + nat.Tr + nat.R

\* the last step clamped nothing
Unclamped == LastStep.next = LastStep.raw

\* C27: in every step the transfer flows cancel, so the unclamped values sum
\* to total(m) - TB deaths - natural deaths in L, Iu, Id, T, R; in a step
\* that clamps nothing this is total(m+1), and the total increases only in
\* a step in which a negative value was clamped to 0.
C27_FlowBalance ==
  Stepped =>
    LET s == LastFrom
        st == LastStep
        balance == Total(s) - TBDeaths(st.flows) - NaturalDeaths(st.flows)
    IN /\ Total(st.raw) = balance
       /\ Unclamped => Total(series[Len(series)]) = balance
       /\ Total(series[Len(series)]) > Total(s) =>
            \E c \in DOMAIN st.raw : st.raw[c] < 0

\* a step that clamped nothing, with infections, progressions, treatment
\* starts and completions, and deaths of both kinds
C27_Witness ==
  /\ Stepped
  /\ Unclamped
  /\ LastStep.flows.new_infections > 0
  /\ LastStep.flows.prog_s > 0
  /\ LastStep.start_Ts > 0
  /\ LastStep.flows.comp_Ts > 0
  /\ LastStep.flows.relapses > 0
  /\ TBDeaths(LastStep.flows) > 0
  /\ NaturalDeaths(LastStep.flows) > 0
  /\ Total(series[Len(series)]) < Total(LastFrom)

\* ---------------------------------------------------------------------- C28
\* other settings (tpt_coverage, tpt_efficacy) of preventive therapy
TPTSettings == {<<0, 0>>, <<150000, 650000>>, <<D, D>>}

\* the effective parameters of the running call with another TPT setting
WithTPT(t) == [p EXCEPT !["tpt_coverage"] = t[1], !["tpt_efficacy"] = t[2]]

SameRunInputs(g, h) ==
  /\ g.beta = h.beta
  /\ g.pop = h.pop
  /\ g.out.params = h.out.params

\* the series and yearly incidence of the shorter call g open those of h
IsPrefixRun(g, h) ==
  /\ g.out.compartments = SubSeq(h.out.compartments, 1, Len(g.out.compartments))
  /\ \A y \in 1 .. g.years : g.out.incidence_yearly[y] = h.out.incidence_yearly[y]

\* C29: of two calls with the same beta, population and parameters the one
\* with the shorter horizon has a series and a yearly incidence that are a
\* prefix of the other's; so the Year-1 incidence the calibration computed
\* (years = 1) for the beta it returned is incidence_yearly[0] of the
\* reporting run made with that beta over the longer horizon.
C29_HorizonPrefix ==
  /\ \A i, j \in 1 .. Len(hist) :
       (SameRunInputs(hist[i], hist[j]) /\ hist[i].years <= hist[j].years)
         => IsPrefixRun(hist[i], hist[j])
  /\ (cpc = "reported" /\ outcome = "returned") =>
       out.incidence_yearly[1] = val + cal.target * PS

\* the three-year run of a district made with the calibrated beta: its first
\* yearly incidence is the one the calibration's last one-year trial found
C29_Witness ==
  /\ cpc = "reported"
  /\ outcome = "returned"
  /\ call.years = 3
  /\ call.beta = result
  /\ Len(out.incidence_yearly) = 3
  /\ out.incidence_yearly[1] = val + cal.target * PS
  /\ out.incidence_yearly[2] # out.incidence_yearly[1]

\* ---------------------------------------------------------------------- C30
\* beta_high after the k expansions made
ExpandedHigh ==
  IF k = 0 THEN beta_high_default
  ELSE IF k = 1 THEN BetaTimes(beta_high_default, ExpansionFactors[1])
  ELSE BetaTimes(BetaTimes(beta_high_default, ExpansionFactors[1]),
                 ExpansionFactors[2])

\* every beta evaluated and the bracket lie between the supplied beta_low and
\* the expanded beta_high, every bisection trial is the midpoint of the
\* current bracket, and a returned beta is strictly inside
BetaRange ==
  /\ Calibrating =>
       /\ BetaLeq(beta_low_default, call.beta)
       /\ BetaLeq(call.beta, ExpandedHigh)
       /\ BetaLeq(beta_low_default, beta_low)
       /\ BetaLeq(beta_high, ExpandedHigh)
  /\ cpc = "bisect" =>
       /\ mid = BetaMid(beta_low, beta_high)
       /\ call.beta = mid
  /\ outcome = "returned" =>
       /\ result = mid
       /\ BetaLess(beta_low_default, result)
       /\ BetaLess(result, ExpandedHigh)

\* a step of the bisection never lowers beta_low nor raises beta_high, and a
\* value is returned only by the bisection, as its current midpoint
BetaRangeStep ==
  /\ cpc = "bisect" =>
       /\ BetaLeq(beta_low, beta_low')
       /\ BetaLeq(beta_high', beta_high)
  /\ (outcome # "returned" /\ outcome' = "returned") =>
       /\ cpc = "bisect"
       /\ result' = mid

\* C30: the calibration never evaluates a beta below the supplied beta_low;
\* during bisection beta_low never decreases and beta_high never increases;
\* a returned value is a bisection midpoint strictly between the initial
\* beta_low and the (possibly expanded) beta_high, never an endpoint, also
\* when |f| at an endpoint is already within the tolerance.
C30_BetaRange == []BetaRange /\ [][BetaRangeStep]_vars

\* a calibration whose f at the supplied beta_low was within the tolerance
\* (beta_low never moved, so f_low is still that value) and which returned
\* a midpoint above it
C30_Witness ==
  /\ outcome = "returned"
  /\ cpc = "returned"
  /\ beta_low = beta_low_default
  /\ Abs(f_low) <= cal.tol
  /\ result # beta_low_default
  /\ BetaLess(beta_low_default, result)
  /\ BetaLess(result, beta_high_default)

====
